---- MODULE Spec2Model ----
(***************************************************************************)
(* Model of the user service: the authentication hook and token helper of  *)
(* plugins/auth.js, the password helpers of utils/password.js, the         *)
(* response envelope of shared-response.js and the five user routes        *)
(* (register, login, get profile, update profile, update preferences).    *)
(*                                                                         *)
(* The database behind fastify.prisma is modelled as two tables of rows    *)
(* with the constraints of the Prisma schema (README.md, Database Schema): *)
(* users.email is unique and notification_preferences.user_id is unique.   *)
(* Every await of a handler that touches the database is one step, so that *)
(* requests on different connections interleave between their awaits.      *)
(*                                                                         *)
(* What a handler passes to reply.send is recorded as the response; the    *)
(* JSON serialisation of that object by the framework is not modelled.     *)
(***************************************************************************)
EXTENDS Integers, FiniteSets, Sequences, TLC

(***************************************************************************)
(* Bounds of the model.                                                    *)
(***************************************************************************)
\* The clock counts seconds (the unit of the iat and exp claims) up to here.
MaxTime == 2
\* process.env.JWT_EXPIRES_IN as a number of seconds; the code's default is
\* '7d'.  The model runs with a lifetime short enough for the clock to pass.
JWT_EXPIRES_IN == 2

\* No more requests than this are received in one run.
MaxRequests == 3

\* Connections on which requests are handled concurrently.
Procs == {"c1", "c2"}

Emails == {"a@b.com", "c@d.com"}
Passwords == {"password123", "hunter22"}
Names == {"Al", "Bo"}
PushTokens == {"null", "apns-1"}
Salts == {"saltA", "saltB"}

\* JavaScript's null, as the value of a nullable string column.
NULL == "null"

\* process.env.JWT_SECRET and a key the server does not use.
JWT_SECRET == "server-secret"
OtherSecret == "attacker-secret"

VARIABLES
    users,   \* table users: set of rows
    prefs,   \* table notification_preferences: set of rows
    now,     \* the wall clock, in seconds
    pc,      \* pc[c]: where the request on connection c stands
    req,     \* req[c]: the request on connection c (the fastify request object)
    loc,     \* loc[c]: the handler's local variables kept across an await
    resp,    \* resp[c]: status and body of the reply sent on c
    issued,  \* the tokens the clients have been given
    nreq     \* the number of requests received so far

vars == <<users, prefs, now, pc, req, loc, resp, issued, nreq>>

(***************************************************************************)
(* utils/password.js                                                       *)
(***************************************************************************)
SALT_ROUNDS == 10

\* bcrypt.hash with the salt it drew: "$2b$<cost>$<salt><hash of password>".
bcrypt_hash(password, salt) ==
    "$2b$" \o ToString(SALT_ROUNDS) \o "$" \o salt \o "." \o password

\* A hashPassword that uses one salt for every call.
hashPassword_unsalted(password, salt) == bcrypt_hash(password, "saltA")

hashPassword(password, salt) == bcrypt_hash(password, salt)

\* A comparison that takes every password.
comparePassword_any(password, hashedPassword) == TRUE

\* bcrypt.compare: recompute with the salt embedded in the digest.
comparePassword(password, hashedPassword) ==
    \E s \in Salts : hashedPassword = bcrypt_hash(password, s)

Digests == {bcrypt_hash(p, s) : p \in Passwords, s \in Salts}

(***************************************************************************)
(* shared-response.js                                                      *)
(***************************************************************************)
\* createResponse(success, message, data, error): opt holds the optional
\* arguments that are not undefined, under their names.
createResponse(success, message, opt) ==
    [success |-> success, message |-> message] @@ opt

Nothing == [x \in {} |-> 0]

(***************************************************************************)
(* plugins/auth.js: tokens.  A token is the sequence of the three segments *)
(* of a JWT, <<header, payload, signature>>; any other sequence is a       *)
(* string that does not parse as a JWT.                                    *)
(***************************************************************************)
JoseHeader == [alg |-> "HS256", typ |-> "JWT"]

\* The HMAC of the signing input under a key, as a symbolic value: equal
\* exactly when data and key are equal.
HMAC(data, key) == [data |-> data, key |-> key]

\* jwt.sign(payload, secret, {expiresIn}) at clock time t.
jwt_sign(payload, secret, expiresIn, t) ==
    LET claims == payload @@ [iat |-> t, exp |-> t + expiresIn]
    IN  <<JoseHeader, claims, HMAC(claims, secret)>>

\* A generateToken whose tokens do not depend on the time of issue.
generateToken_static(userId, email, t) ==
    jwt_sign([user_id |-> userId, email |-> email], JWT_SECRET, JWT_EXPIRES_IN, 0)

\* fastify.generateToken(userId, email) at clock time t.
generateToken(userId, email, t) ==
    jwt_sign([user_id |-> userId, email |-> email], JWT_SECRET, JWT_EXPIRES_IN, t)

\* jwt_verify that still takes a token in the second its exp claim names.
jwt_verify_late(token, secret, t) ==
    IF Len(token) # 3
    THEN [ok |-> FALSE, error |-> "JsonWebTokenError: jwt malformed", decoded |-> Nothing]
    ELSE IF token[3] # HMAC(token[2], secret)
    THEN [ok |-> FALSE, error |-> "JsonWebTokenError: invalid signature", decoded |-> Nothing]
    ELSE IF t > token[2].exp
    THEN [ok |-> FALSE, error |-> "TokenExpiredError: jwt expired", decoded |-> Nothing]
    ELSE [ok |-> TRUE, error |-> "", decoded |-> token[2]]

\* jwt_verify that decodes without checking the signature.
jwt_verify_unsigned(token, secret, t) ==
    IF Len(token) # 3
    THEN [ok |-> FALSE, error |-> "JsonWebTokenError: jwt malformed", decoded |-> Nothing]
    ELSE IF t >= token[2].exp
    THEN [ok |-> FALSE, error |-> "TokenExpiredError: jwt expired", decoded |-> Nothing]
    ELSE [ok |-> TRUE, error |-> "", decoded |-> token[2]]

\* jwt.verify(token, secret) at clock time t: the decoded payload, or the
\* error it throws.  The token is parsed, then its signature is checked,
\* then its exp claim: a token is expired from the second exp on.
jwt_verify(token, secret, t) ==
    IF Len(token) # 3
    THEN [ok |-> FALSE, error |-> "JsonWebTokenError: jwt malformed", decoded |-> Nothing]
    ELSE IF token[3] # HMAC(token[2], secret)
    THEN [ok |-> FALSE, error |-> "JsonWebTokenError: invalid signature", decoded |-> Nothing]
    ELSE IF t >= token[2].exp
    THEN [ok |-> FALSE, error |-> "TokenExpiredError: jwt expired", decoded |-> Nothing]
    ELSE [ok |-> TRUE, error |-> "", decoded |-> token[2]]

\* The Authorization header: <<>> when absent, else <<scheme prefix, rest>>.
NoHeader == <<>>
startsWith(header, prefix) == Len(header) = 2 /\ header[1] = prefix
substring7(header) == header[2]

\* authenticate that takes the token of a header of any scheme.
authenticate_anyScheme(request, t) ==
    LET authHeader == request.headers.authorization IN
    IF authHeader = NoHeader
    THEN [pass |-> FALSE, user |-> request.user, status |-> 401,
          body |-> [success |-> FALSE, message |-> "Access token required"]]
    ELSE LET v == jwt_verify(authHeader[2], JWT_SECRET, t) IN
         IF v.ok
         THEN [pass |-> TRUE, user |-> v.decoded, status |-> 0, body |-> Nothing]
         ELSE [pass |-> FALSE, user |-> request.user, status |-> 403,
               body |-> [success |-> FALSE, message |-> "Invalid or expired token"]]

\* authenticate that tells the caller why the token was refused.
authenticate_telling(request, t) ==
    LET authHeader == request.headers.authorization IN
    IF authHeader = NoHeader \/ ~startsWith(authHeader, "Bearer ")
    THEN [pass |-> FALSE, user |-> request.user, status |-> 401,
          body |-> [success |-> FALSE, message |-> "Access token required"]]
    ELSE LET v == jwt_verify(substring7(authHeader), JWT_SECRET, t) IN
         IF v.ok
         THEN [pass |-> TRUE, user |-> v.decoded, status |-> 0, body |-> Nothing]
         ELSE [pass |-> FALSE, user |-> request.user, status |-> 403,
               body |-> [success |-> FALSE, message |-> v.error]]

\* authenticate that looks the claims up in the users table, and refuses a
\* token whose account no longer has the email of the token.
authenticate_revoking(request, t) ==
    LET authHeader == request.headers.authorization IN
    IF authHeader = NoHeader \/ ~startsWith(authHeader, "Bearer ")
    THEN [pass |-> FALSE, user |-> request.user, status |-> 401,
          body |-> [success |-> FALSE, message |-> "Access token required"]]
    ELSE LET v == jwt_verify(substring7(authHeader), JWT_SECRET, t) IN
         IF v.ok /\ \E u \in users : u.id = v.decoded.user_id /\ u.email = v.decoded.email
         THEN [pass |-> TRUE, user |-> v.decoded, status |-> 0, body |-> Nothing]
         ELSE [pass |-> FALSE, user |-> request.user, status |-> 403,
               body |-> [success |-> FALSE, message |-> "Invalid or expired token"]]

\* fastify.authenticate(request, reply) at clock time t: whether the request
\* goes on to its handler, the value of request.user afterwards, and the
\* reply sent when it does not.
authenticate(request, t) ==
    LET authHeader == request.headers.authorization IN
    IF authHeader = NoHeader \/ ~startsWith(authHeader, "Bearer ")
    THEN [pass |-> FALSE, user |-> request.user, status |-> 401,
          body |-> [success |-> FALSE, message |-> "Access token required"]]
    ELSE LET v == jwt_verify(substring7(authHeader), JWT_SECRET, t) IN
         IF v.ok
         THEN [pass |-> TRUE, user |-> v.decoded, status |-> 0, body |-> Nothing]
         ELSE [pass |-> FALSE, user |-> request.user, status |-> 403,
               body |-> [success |-> FALSE, message |-> "Invalid or expired token"]]

\* The lines the logger has written for a request when the hook is done.
\* The hook calls request.log nowhere and its catch block drops the error it
\* caught; the logger of the Fastify instance writes its own line for the
\* request and, once a reply is sent, its line for the reply with the status.
authenticate_log(request, t) ==
    LET gate == authenticate(request, t)
        incoming == [msg |-> "incoming request", url |-> request.route,
                     user_id |-> request.params.user_id]
    IN  IF gate.pass
        THEN <<incoming>>
        ELSE <<incoming, [msg |-> "request completed", statusCode |-> gate.status]>>

(***************************************************************************)
(* fastify.prisma: the two tables and the client calls the routes make.    *)
(* Each call is given the tables and returns the tables after it, the      *)
(* Prisma error code it throws ("" when none) and its result.              *)
(***************************************************************************)
\* @default(uuid()): an id no existing row has.
uuid(prefix, rows) == prefix \o ToString(Cardinality(rows) + 1)

\* include: { notification_preferences: true }
include(P, row) ==
    LET np == {n \in P : n.user_id = row.id}
    IN  row @@ [notification_preferences |->
                  IF np = {} THEN [id |-> NULL] ELSE CHOOSE n \in np : TRUE]

\* findUnique by email that compares the wrong column.
user_findUnique_email_byName(U, email) == {u \in U : u.name = email}

\* prisma.user.findUnique({ where }): the rows found, none or one.
user_findUnique_email(U, email) == {u \in U : u.email = email}
user_findUnique_id(U, id) == {u \in U : u.id = id}

\* A users table without the unique index on email.
user_email_taken_never(U, email, exceptId) == FALSE

\* model User: email String @unique
user_email_taken(U, email, exceptId) ==
    \E u \in U : u.email = email /\ u.id # exceptId

\* A create that writes the user row and loses the nested create.
user_create_unpaired(U, P, data, t) ==
    IF user_email_taken(U, data.email, NULL)
    THEN [code |-> "P2002", users |-> U, prefs |-> P, row |-> Nothing]
    ELSE LET row == [id |-> uuid("u", U), email |-> data.email,
                     password |-> data.password, name |-> data.name,
                     push_token |-> NULL, created_at |-> t, updated_at |-> t]
         IN  [code |-> "", users |-> U \cup {row}, prefs |-> P,
              row |-> row @@ [notification_preferences |-> [id |-> NULL]]]

\* prisma.user.create({ data: {email, password, name,
\*   notification_preferences: {create: {email: true, push: true, sms: false}}} })
\* as one transaction: both rows or neither.
user_create(U, P, data, t) ==
    IF user_email_taken(U, data.email, NULL)
    THEN [code |-> "P2002", users |-> U, prefs |-> P, row |-> Nothing]
    ELSE LET row == [id |-> uuid("u", U), email |-> data.email,
                     password |-> data.password, name |-> data.name,
                     push_token |-> NULL, created_at |-> t, updated_at |-> t]
             np  == [id |-> uuid("np", P), user_id |-> row.id,
                     email |-> TRUE, push |-> TRUE, sms |-> FALSE]
         IN  [code |-> "", users |-> U \cup {row}, prefs |-> P \cup {np},
              row |-> row @@ [notification_preferences |-> np]]

\* prisma.user.update({ where: {id}, data }): every key of data is written,
\* updated_at is refreshed (@updatedAt).
user_update(U, P, id, data, t) ==
    LET found == user_findUnique_id(U, id) IN
    IF found = {}
    THEN [code |-> "P2025", users |-> U, prefs |-> P, row |-> Nothing]
    ELSE IF "email" \in DOMAIN data /\ user_email_taken(U, data.email, id)
    THEN [code |-> "P2002", users |-> U, prefs |-> P, row |-> Nothing]
    ELSE LET old == CHOOSE u \in found : TRUE
             new == [k \in DOMAIN old |->
                       IF k \in DOMAIN data THEN data[k]
                       ELSE IF k = "updated_at" THEN t ELSE old[k]]
         IN  [code |-> "", users |-> (U \ {old}) \cup {new}, prefs |-> P,
              row |-> include(P, new)]

\* An insert in place of the upsert, into a table without the unique index
\* on user_id.
prefs_upsert_insert(U, P, user_id, preferences) ==
    LET defaults == [id |-> uuid("np", P), user_id |-> user_id,
                     email |-> TRUE, push |-> TRUE, sms |-> FALSE]
        new == [k \in DOMAIN defaults |->
                  IF k \in DOMAIN preferences THEN preferences[k] ELSE defaults[k]]
    IN  IF user_findUnique_id(U, user_id) = {}
        THEN [code |-> "P2003", prefs |-> P, row |-> Nothing]
        ELSE [code |-> "", prefs |-> P \cup {new}, row |-> new]

\* An upsert that writes the column defaults over the fields not supplied.
prefs_upsert_replace(U, P, user_id, preferences) ==
    LET found == {n \in P : n.user_id = user_id}
        defaults == [id |-> uuid("np", P), user_id |-> user_id,
                     email |-> TRUE, push |-> TRUE, sms |-> FALSE]
        new == [k \in DOMAIN defaults |->
                  IF k \in DOMAIN preferences THEN preferences[k] ELSE defaults[k]]
    IN  IF user_findUnique_id(U, user_id) = {}
        THEN [code |-> "P2003", prefs |-> P, row |-> Nothing]
        ELSE [code |-> "", prefs |-> (P \ found) \cup {new}, row |-> new]

\* An upsert that only inserts: the row an account already has stays as the
\* first write left it.
prefs_upsert_firstWins(U, P, user_id, preferences) ==
    LET found == {n \in P : n.user_id = user_id}
        defaults == [id |-> uuid("np", P), user_id |-> user_id,
                     email |-> TRUE, push |-> TRUE, sms |-> FALSE]
    IN  IF found # {}
        THEN [code |-> "", prefs |-> P, row |-> CHOOSE n \in found : TRUE]
        ELSE IF user_findUnique_id(U, user_id) = {}
        THEN [code |-> "P2003", prefs |-> P, row |-> Nothing]
        ELSE LET new == [k \in DOMAIN defaults |->
                           IF k \in DOMAIN preferences THEN preferences[k]
                           ELSE defaults[k]]
             IN  [code |-> "", prefs |-> P \cup {new}, row |-> new]

\* prisma.notificationPreferences.upsert({ where: {user_id}, update, create }):
\* the row of user_id gets the supplied fields, or is created with them and
\* the column defaults; user_id must be the id of a user (foreign key).
prefs_upsert(U, P, user_id, preferences) ==
    LET found == {n \in P : n.user_id = user_id}
        defaults == [id |-> uuid("np", P), user_id |-> user_id,
                     email |-> TRUE, push |-> TRUE, sms |-> FALSE]
    IN  IF found # {}
        THEN LET old == CHOOSE n \in found : TRUE
                 new == [k \in DOMAIN old |->
                           IF k \in DOMAIN preferences THEN preferences[k] ELSE old[k]]
             IN  [code |-> "", prefs |-> (P \ {old}) \cup {new}, row |-> new]
        ELSE IF user_findUnique_id(U, user_id) = {}
        THEN [code |-> "P2003", prefs |-> P, row |-> Nothing]
        ELSE LET new == [k \in DOMAIN defaults |->
                           IF k \in DOMAIN preferences THEN preferences[k]
                           ELSE defaults[k]]
             IN  [code |-> "", prefs |-> P \cup {new}, row |-> new]

\* error.message of the PrismaClientKnownRequestError with the given code.
error_message(code) ==
    CASE code = "P2002" -> "Unique constraint failed on the fields: email"
      [] code = "P2003" -> "Foreign key constraint failed on the field: user_id"
      [] code = "P2025" -> "Record to update not found."
      [] OTHER -> "error"

\* The user object as it came from the database.
withPassword(user) == user

\* const { password: _, ...userWithoutPassword } = user
withoutPassword(user) == [k \in DOMAIN user \ {"password"} |-> user[k]]

(***************************************************************************)
(* Requests.  The inputs a client can send.                                *)
(***************************************************************************)
PathIds == {"u1", "u2"}

\* What a client can make of a token it was given: the token itself, the
\* token with a claim altered under the old signature, and the same claims
\* signed with a key of its own.
Variants(token) ==
    LET p == token[2] IN
    {token}
    \cup {<<token[1], [p EXCEPT !.user_id = id], token[3]>> : id \in PathIds \ {p.user_id}}
    \cup {<<token[1], [p EXCEPT !.exp = p.exp + 1], token[3]>>}
    \cup {<<token[1], p, HMAC(p, OtherSecret)>>}

TokenStrings == UNION {Variants(t) : t \in issued} \cup {<<"not-a-jwt">>}

Headers ==
    {NoHeader} \cup {<<"Bearer ", s>> : s \in TokenStrings}
               \cup {<<"Basic ", s>> : s \in issued}

\* Request bodies that pass the route's schema.  updateUserSchema and
\* updatePreferencesSchema list properties without additionalProperties:
\* false, so the body of PATCH /:user_id may carry other columns of the
\* users table too.  The bodies with no key, with one key, and one with two.
UpdateUserBodies ==
    {Nothing}
    \cup {[name |-> n] : n \in Names}
    \cup {[push_token |-> t] : t \in PushTokens}
    \cup {[email |-> e] : e \in Emails}
    \cup {[password |-> p] : p \in Passwords}
    \cup {[name |-> "Bo", push_token |-> "apns-1"]}

UpdatePreferencesBodies ==
    {Nothing}
    \cup {[email |-> b] : b \in BOOLEAN}
    \cup {[push |-> b] : b \in BOOLEAN}
    \cup {[sms |-> b] : b \in BOOLEAN}
    \cup {[email |-> FALSE, sms |-> TRUE]}

Request(route, authorization, user_id, body) ==
    [route |-> route, headers |-> [authorization |-> authorization],
     params |-> [user_id |-> user_id], body |-> body, user |-> Nothing]

NoRequest == Request("", NoHeader, NULL, Nothing)
NoResponse == [status |-> 0, body |-> Nothing]

reply(status, body) == [status |-> status, body |-> body]

Init ==
    /\ users = {}
    /\ prefs = {}
    /\ now = 0
    /\ pc = [c \in Procs |-> "idle"]
    /\ req = [c \in Procs |-> NoRequest]
    /\ loc = [c \in Procs |-> Nothing]
    /\ resp = [c \in Procs |-> NoResponse]
    /\ issued = {}
    /\ nreq = 0

\* Every reply sent has reached its client.  A reply is taken off its
\* connection (Deliver) before the next step of the server is looked at:
\* Deliver touches nothing the server reads.
Quiet == \A d \in Procs : pc[d] # "replied"

\* A second passes.
Tick ==
    /\ Quiet
    /\ now < MaxTime
    /\ now' = now + 1
    /\ UNCHANGED <<users, prefs, pc, req, loc, resp, issued, nreq>>

\* A request arrives on connection c.
Receive(c, request) ==
    /\ Quiet
    /\ pc[c] = "idle"
    /\ nreq < MaxRequests
    /\ nreq' = nreq + 1
    /\ req' = [req EXCEPT ![c] = request]

\* The handler goes on after an await.
Resume(c, label) ==
    /\ Quiet
    /\ pc[c] = label
    /\ UNCHANGED <<req, nreq>>

\* The body of the request is parsed and validated, after the onRequest
\* hooks, and the handler starts.
Parsed(c, label, body) ==
    /\ Quiet
    /\ pc[c] = label
    /\ req' = [req EXCEPT ![c].body = body]
    /\ UNCHANGED nreq

\* The reply is sent and the request is over.
Send(c, r) ==
    /\ resp' = [resp EXCEPT ![c] = r]
    /\ pc' = [pc EXCEPT ![c] = "replied"]
    /\ loc' = [loc EXCEPT ![c] = Nothing]

\* The handler waits for the database.
Await(c, label, locals) ==
    /\ pc' = [pc EXCEPT ![c] = label]
    /\ loc' = [loc EXCEPT ![c] = locals]
    /\ UNCHANGED resp

\* The client reads the reply, keeps the token in it, and the connection is
\* free for its next request.
Deliver(c) ==
    /\ pc[c] = "replied"
    /\ pc' = [pc EXCEPT ![c] = "idle"]
    /\ issued' = IF "data" \in DOMAIN resp[c].body /\ "token" \in DOMAIN resp[c].body.data
                 THEN issued \cup {resp[c].body.data.token}
                 ELSE issued
    /\ req' = [req EXCEPT ![c] = NoRequest]
    /\ resp' = [resp EXCEPT ![c] = NoResponse]
    /\ UNCHANGED <<users, prefs, now, loc, nreq>>

(***************************************************************************)
(* POST /api/v1/users/                                                     *)
(***************************************************************************)
\* Up to the answer of prisma.user.findUnique({ where: { email } }).
PostUsers_findUnique(c, email, password, name) ==
    /\ Receive(c, Request("POST /", NoHeader, NULL,
                  [email |-> email, password |-> password, name |-> name]))
    /\ LET existingUser == user_findUnique_email(users, email) IN
       IF existingUser # {}
       THEN Send(c, reply(409, createResponse(FALSE,
                     "User with this email already exists", Nothing)))
       ELSE Await(c, "POST / create", Nothing)
    /\ UNCHANGED <<users, prefs, now, issued>>

\* hashPassword, prisma.user.create, generateToken and the reply.
PostUsers_create(c, salt) ==
    /\ Resume(c, "POST / create")
    /\ LET body == req[c].body
           hashedPassword == hashPassword(body.password, salt)
           r == user_create(users, prefs,
                    [email |-> body.email, password |-> hashedPassword,
                     name |-> body.name], now)
       IN  IF r.code = ""
           THEN LET user == r.row
                    token == generateToken(user.id, user.email, now)
                IN  /\ users' = r.users
                    /\ prefs' = r.prefs
                    /\ Send(c, reply(201, createResponse(TRUE,
                           "User created successfully",
                           [data |-> [user |-> withoutPassword(user),
                                      token |-> token]])))
           ELSE /\ Send(c, reply(500, createResponse(FALSE,
                       "Internal server error", [error |-> error_message(r.code)])))
                /\ UNCHANGED <<users, prefs>>
    /\ UNCHANGED <<now, issued>>

(***************************************************************************)
(* POST /api/v1/users/login                                                *)
(***************************************************************************)
\* A login that tells an unknown email from a wrong password.
PostLogin_telling(c, email, password) ==
    /\ Receive(c, Request("POST /login", NoHeader, NULL,
                  [email |-> email, password |-> password]))
    /\ LET found == user_findUnique_email(users, email) IN
       IF found = {}
       THEN Send(c, reply(404, createResponse(FALSE, "User not found", Nothing)))
       ELSE LET user == include(prefs, CHOOSE u \in found : TRUE)
                isPasswordValid == comparePassword(password, user.password)
                token == generateToken(user.id, user.email, now)
            IN  IF ~isPasswordValid
                THEN Send(c, reply(401, createResponse(FALSE,
                            "Invalid email or password", Nothing)))
                ELSE Send(c, reply(200, createResponse(TRUE, "Login successful",
                            [data |-> [user |-> withoutPassword(user),
                                       token |-> token]])))
    /\ UNCHANGED <<users, prefs, now, issued>>

PostLogin(c, email, password) ==
    /\ Receive(c, Request("POST /login", NoHeader, NULL,
                  [email |-> email, password |-> password]))
    /\ LET found == user_findUnique_email(users, email) IN
       IF found = {}
       THEN Send(c, reply(401, createResponse(FALSE,
                   "Invalid email or password", Nothing)))
       ELSE LET user == include(prefs, CHOOSE u \in found : TRUE)
                isPasswordValid == comparePassword(password, user.password)
                token == generateToken(user.id, user.email, now)
            IN  IF ~isPasswordValid
                THEN Send(c, reply(401, createResponse(FALSE,
                            "Invalid email or password", Nothing)))
                ELSE Send(c, reply(200, createResponse(TRUE, "Login successful",
                            [data |-> [user |-> withoutPassword(user),
                                       token |-> token]])))
    /\ UNCHANGED <<users, prefs, now, issued>>

(***************************************************************************)
(* GET /api/v1/users/:user_id                                              *)
(***************************************************************************)
\* A GET /:user_id behind the authentication hook.
GetUser_gated(c, user_id, authorization) ==
    LET request == Request("GET /:user_id", authorization, user_id, Nothing)
        gate == authenticate(request, now)
        found == user_findUnique_id(users, user_id)
    IN  /\ Receive(c, [request EXCEPT !.user = gate.user])
        /\ IF ~gate.pass
           THEN Send(c, reply(gate.status, gate.body))
           ELSE IF found = {}
           THEN Send(c, reply(404, createResponse(FALSE, "User not found", Nothing)))
           ELSE LET user == include(prefs, CHOOSE u \in found : TRUE)
                IN  Send(c, reply(200, createResponse(TRUE,
                           "User profile retrieved successfully",
                           [data |-> withoutPassword(user)])))
        /\ UNCHANGED <<users, prefs, now, issued>>

GetUser(c, user_id, authorization) ==
    /\ Receive(c, Request("GET /:user_id", authorization, user_id, Nothing))
    /\ LET found == user_findUnique_id(users, user_id) IN
       IF found = {}
       THEN Send(c, reply(404, createResponse(FALSE, "User not found", Nothing)))
       ELSE LET user == include(prefs, CHOOSE u \in found : TRUE)
            IN  Send(c, reply(200, createResponse(TRUE,
                       "User profile retrieved successfully",
                       [data |-> withoutPassword(user)])))
    /\ UNCHANGED <<users, prefs, now, issued>>

(***************************************************************************)
(* PATCH /api/v1/users/:user_id and PATCH /api/v1/users/:user_id/preferences *)
(***************************************************************************)
\* onRequest: [fastify.authenticate].  The hook either replies, and the
\* request ends there, or sets request.user and lets the handler run.
OnRequest(c, route, authorization, user_id) ==
    LET request == Request(route, authorization, user_id, Nothing)
        gate == authenticate(request, now)
    IN  /\ Receive(c, [request EXCEPT !.user = gate.user])
        /\ IF gate.pass
           THEN Await(c, route, Nothing)
           ELSE Send(c, reply(gate.status, gate.body))
        /\ UNCHANGED <<users, prefs, now, issued>>

\* An ownership check that lets every identified caller through.
isOwner_anyone(request) == DOMAIN request.user # {}

\* request.user.user_id !== user_id, negated.
isOwner(request) == request.user.user_id = request.params.user_id

\* A check for an empty body that finds none empty.
isEmpty_never(body) == FALSE

\* Object.keys(body).length === 0
isEmpty(body) == Cardinality(DOMAIN body) = 0

PatchUser_onRequest(c, authorization, user_id) ==
    OnRequest(c, "PATCH /:user_id", authorization, user_id)

PatchPreferences_onRequest(c, authorization, user_id) ==
    OnRequest(c, "PATCH /:user_id/preferences", authorization, user_id)

\* A handler of PATCH /:user_id that looks at the body before the owner.
PatchUser_emptyFirst(c, updates) ==
    /\ Parsed(c, "PATCH /:user_id", updates)
    /\ LET user_id == req[c].params.user_id
       IN  IF isEmpty(updates)
           THEN /\ Send(c, reply(400, createResponse(FALSE,
                       "No valid fields to update", Nothing)))
                /\ UNCHANGED users
           ELSE IF ~isOwner(req[c])
           THEN /\ Send(c, reply(403, createResponse(FALSE,
                       "You can only update your own profile", Nothing)))
                /\ UNCHANGED users
           ELSE LET r == user_update(users, prefs, user_id, updates, now) IN
                IF r.code = ""
                THEN /\ users' = r.users
                     /\ Send(c, reply(200, createResponse(TRUE,
                            "User updated successfully",
                            [data |-> withoutPassword(r.row)])))
                ELSE IF r.code = "P2025"
                THEN /\ Send(c, reply(404, createResponse(FALSE, "User not found", Nothing)))
                     /\ UNCHANGED users
                ELSE /\ Send(c, reply(500, createResponse(FALSE,
                            "Internal server error", [error |-> error_message(r.code)])))
                     /\ UNCHANGED users
    /\ UNCHANGED <<prefs, now, issued>>

\* The handler of PATCH /:user_id.
PatchUser(c, updates) ==
    /\ Parsed(c, "PATCH /:user_id", updates)
    /\ LET user_id == req[c].params.user_id
       IN  IF ~isOwner(req[c])
           THEN /\ Send(c, reply(403, createResponse(FALSE,
                       "You can only update your own profile", Nothing)))
                /\ UNCHANGED users
           ELSE IF isEmpty(updates)
           THEN /\ Send(c, reply(400, createResponse(FALSE,
                       "No valid fields to update", Nothing)))
                /\ UNCHANGED users
           ELSE LET r == user_update(users, prefs, user_id, updates, now) IN
                IF r.code = ""
                THEN /\ users' = r.users
                     /\ Send(c, reply(200, createResponse(TRUE,
                            "User updated successfully",
                            [data |-> withoutPassword(r.row)])))
                ELSE IF r.code = "P2025"
                THEN /\ Send(c, reply(404, createResponse(FALSE, "User not found", Nothing)))
                     /\ UNCHANGED users
                ELSE /\ Send(c, reply(500, createResponse(FALSE,
                            "Internal server error", [error |-> error_message(r.code)])))
                     /\ UNCHANGED users
    /\ UNCHANGED <<prefs, now, issued>>

\* The handler of PATCH /:user_id/preferences up to the answer of
\* prisma.notificationPreferences.upsert.
PatchPreferences_upsert(c, preferences) ==
    /\ Parsed(c, "PATCH /:user_id/preferences", preferences)
    /\ LET user_id == req[c].params.user_id
       IN  IF ~isOwner(req[c])
           THEN /\ Send(c, reply(403, createResponse(FALSE,
                       "You can only update your own preferences", Nothing)))
                /\ UNCHANGED prefs
           ELSE IF isEmpty(preferences)
           THEN /\ Send(c, reply(400, createResponse(FALSE,
                       "No preferences provided to update", Nothing)))
                /\ UNCHANGED prefs
           ELSE LET r == prefs_upsert(users, prefs, user_id, preferences) IN
                IF r.code = ""
                THEN /\ prefs' = r.prefs
                     /\ Await(c, "PATCH /:user_id/preferences findUnique",
                              [updatedPreferences |-> r.row])
                ELSE /\ Send(c, reply(500, createResponse(FALSE,
                            "Internal server error", [error |-> error_message(r.code)])))
                     /\ UNCHANGED prefs
    /\ UNCHANGED <<users, now, issued>>

\* A reply that reports the time of the preferences write as updated_at.
PatchPreferences_findUnique_now(c) ==
    /\ Resume(c, "PATCH /:user_id/preferences findUnique")
    /\ LET found == user_findUnique_id(users, req[c].params.user_id)
           updatedPreferences == loc[c].updatedPreferences
       IN  IF found = {}
           THEN Send(c, reply(500, createResponse(FALSE, "Internal server error",
                    [error |-> "Cannot read properties of null"])))
           ELSE LET user == CHOOSE u \in found : TRUE IN
                Send(c, reply(200, createResponse(TRUE,
                    "Notification preferences updated successfully",
                    [data |-> [id |-> user.id,
                               notification_preferences |->
                                 [email |-> updatedPreferences.email,
                                  push |-> updatedPreferences.push,
                                  sms |-> updatedPreferences.sms],
                               updated_at |-> now]])))
    /\ UNCHANGED <<users, prefs, now, issued>>

\* prisma.user.findUnique({ where: { id }, select: { id, updated_at } }) and
\* the reply.  Reading user.id of no row throws a TypeError.
PatchPreferences_findUnique(c) ==
    /\ Resume(c, "PATCH /:user_id/preferences findUnique")
    /\ LET found == user_findUnique_id(users, req[c].params.user_id)
           updatedPreferences == loc[c].updatedPreferences
       IN  IF found = {}
           THEN Send(c, reply(500, createResponse(FALSE, "Internal server error",
                    [error |-> "Cannot read properties of null"])))
           ELSE LET user == CHOOSE u \in found : TRUE IN
                Send(c, reply(200, createResponse(TRUE,
                    "Notification preferences updated successfully",
                    [data |-> [id |-> user.id,
                               notification_preferences |->
                                 [email |-> updatedPreferences.email,
                                  push |-> updatedPreferences.push,
                                  sms |-> updatedPreferences.sms],
                               updated_at |-> user.updated_at]])))
    /\ UNCHANGED <<users, prefs, now, issued>>

(***************************************************************************)
(* The service with its requests handled one at a time.                    *)
(***************************************************************************)
\* Headers sent to the route that reads none.
GetHeaders == {NoHeader, <<"Bearer ", <<"not-a-jwt">>>>} \cup {<<"Bearer ", s>> : s \in issued}

Next ==
    \/ Tick
    \/ \E email \in Emails : PostUsers_findUnique("c1", email, "password123", "Al")
    \/ PostUsers_create("c1", "saltA")
    \/ \E email \in Emails, password \in Passwords : PostLogin("c1", email, password)
    \/ \E user_id \in PathIds, authorization \in GetHeaders :
          GetUser("c1", user_id, authorization)
    \/ \E authorization \in Headers, user_id \in PathIds :
          PatchUser_onRequest("c1", authorization, user_id)
    \/ \E updates \in UpdateUserBodies : PatchUser("c1", updates)
    \/ \E authorization \in Headers, user_id \in PathIds :
          PatchPreferences_onRequest("c1", authorization, user_id)
    \/ \E preferences \in UpdatePreferencesBodies : PatchPreferences_upsert("c1", preferences)
    \/ PatchPreferences_findUnique("c1")
    \/ Deliver("c1")

Spec == Init /\ [][Next]_vars

(***************************************************************************)
(* The service with requests on two connections in flight at once: each    *)
(* await of one handler lets the other go on.                              *)
(***************************************************************************)
RaceHeaders == {<<"Bearer ", s>> : s \in issued}
RaceUserBodies == {[email |-> e] : e \in Emails} \cup {[name |-> "Bo"]}
RacePreferencesBodies == {[sms |-> TRUE], [email |-> FALSE]}

NextRace ==
    \/ Tick
    \/ \E c \in Procs, email \in Emails :
          PostUsers_findUnique(c, email, "password123", "Al")
    \/ \E c \in Procs : PostUsers_create(c, "saltA")
    \/ \E c \in Procs, email \in Emails : PostLogin(c, email, "password123")
    \/ \E c \in Procs, user_id \in PathIds : GetUser(c, user_id, NoHeader)
    \/ \E c \in Procs, authorization \in RaceHeaders, user_id \in PathIds :
          PatchUser_onRequest(c, authorization, user_id)
    \/ \E c \in Procs, updates \in RaceUserBodies : PatchUser(c, updates)
    \/ \E c \in Procs, authorization \in RaceHeaders, user_id \in PathIds :
          PatchPreferences_onRequest(c, authorization, user_id)
    \/ \E c \in Procs, preferences \in RacePreferencesBodies :
          PatchPreferences_upsert(c, preferences)
    \/ \E c \in Procs : PatchPreferences_findUnique(c)
    \/ \E c \in Procs : Deliver(c)

SpecRace == Init /\ [][NextRace]_vars

(***************************************************************************)
(* utils/password.js on its own: each of two callers hashes a password,    *)
(* then compares a password with the digest it or the other caller holds.  *)
(* loc[c] holds the caller's password and the digest returned to it,       *)
(* resp[c].body the arguments and the result of its comparison.            *)
(***************************************************************************)
\* bcrypt draws the salt at random from 2^128 values: the model takes a
\* salt that no digest held by a caller was made with.
FreshSalt(salt) ==
    \A d \in Procs : \A p \in Passwords :
        pc[d] \in {"hashed", "compared"} => loc[d].hashedPassword # bcrypt_hash(p, salt)

\* const hashedPassword = await hashPassword(password)
HashPassword(c, password, salt) ==
    /\ pc[c] = "idle"
    /\ nreq < MaxRequests
    /\ FreshSalt(salt)
    /\ nreq' = nreq + 1
    /\ loc' = [loc EXCEPT ![c] = [password |-> password,
                                  hashedPassword |-> hashPassword(password, salt)]]
    /\ pc' = [pc EXCEPT ![c] = "hashed"]
    /\ UNCHANGED <<users, prefs, now, req, resp, issued>>

\* const isPasswordValid = await comparePassword(password, loc[d].hashedPassword)
ComparePassword(c, d, password) ==
    /\ pc[c] = "hashed"
    /\ pc[d] \in {"hashed", "compared"}
    /\ resp' = [resp EXCEPT ![c] =
                  reply(0, [password |-> password,
                            hashedPassword |-> loc[d].hashedPassword,
                            isPasswordValid |->
                                comparePassword(password, loc[d].hashedPassword)])]
    /\ pc' = [pc EXCEPT ![c] = "compared"]
    /\ UNCHANGED <<users, prefs, now, req, loc, issued, nreq>>

NextHasher ==
    \/ \E c \in Procs, password \in Passwords, salt \in Salts :
          HashPassword(c, password, salt)
    \/ \E c \in Procs, d \in Procs, password \in Passwords :
          ComparePassword(c, d, password)

SpecHasher == Init /\ [][NextHasher]_vars

(***************************************************************************)
(* The service with a database that can fail: any call of fastify.prisma   *)
(* may reject with an error of the client (the server cannot be reached,   *)
(* the connection pool timed out) and write nothing.  The await throws and *)
(* the catch block of the handler replies.                                 *)
(***************************************************************************)
\* error.message of the errors the Prisma client throws without a database.
DbErrors ==
    {"Can not reach database server at db:5432",
     "Timed out fetching a new connection from the connection pool"}

\* catch (error) { return reply.status(500).send(createResponse(false,
\*   'Internal server error', undefined, error.message)) }
Caught(c, error) ==
    Send(c, reply(500, createResponse(FALSE, "Internal server error",
                                      [error |-> error])))

PostUsers_findUnique_throws(c, email, password, name, error) ==
    /\ Receive(c, Request("POST /", NoHeader, NULL,
                  [email |-> email, password |-> password, name |-> name]))
    /\ Caught(c, error)
    /\ UNCHANGED <<users, prefs, now, issued>>

PostUsers_create_throws(c, error) ==
    /\ Resume(c, "POST / create")
    /\ Caught(c, error)
    /\ UNCHANGED <<users, prefs, now, issued>>

PostLogin_throws(c, email, password, error) ==
    /\ Receive(c, Request("POST /login", NoHeader, NULL,
                  [email |-> email, password |-> password]))
    /\ Caught(c, error)
    /\ UNCHANGED <<users, prefs, now, issued>>

GetUser_throws(c, user_id, error) ==
    /\ Receive(c, Request("GET /:user_id", NoHeader, user_id, Nothing))
    /\ Caught(c, error)
    /\ UNCHANGED <<users, prefs, now, issued>>

\* prisma.user.update rejects: the code of the error is not P2025.
PatchUser_throws(c, updates, error) ==
    /\ Parsed(c, "PATCH /:user_id", updates)
    /\ isOwner(req[c]) /\ ~isEmpty(updates)
    /\ Caught(c, error)
    /\ UNCHANGED <<users, prefs, now, issued>>

PatchPreferences_upsert_throws(c, preferences, error) ==
    /\ Parsed(c, "PATCH /:user_id/preferences", preferences)
    /\ isOwner(req[c]) /\ ~isEmpty(preferences)
    /\ Caught(c, error)
    /\ UNCHANGED <<users, prefs, now, issued>>

\* The upsert is done; the read of updated_at rejects.
PatchPreferences_findUnique_throws(c, error) ==
    /\ Resume(c, "PATCH /:user_id/preferences findUnique")
    /\ Caught(c, error)
    /\ UNCHANGED <<users, prefs, now, issued>>

\* GET /health up to the answer of fastify.prisma.$queryRaw`SELECT 1`: the
\* query resolves (outcome "") or rejects with an error.  The route has no
\* hook and reads no header.
GetHealth_queryRaw(c, authorization, outcome) ==
    /\ Receive(c, Request("GET /health", authorization, NULL, Nothing))
    /\ Await(c, "GET /health", [probe |-> outcome])
    /\ UNCHANGED <<users, prefs, now, issued>>

\* A health check that reports the service as healthy whatever the probe.
GetHealth_reply_alwaysOk(c) ==
    /\ Resume(c, "GET /health")
    /\ Send(c, reply(200, [status |-> "ok", timestamp |-> now,
                          database |-> "connected"]))
    /\ UNCHANGED <<users, prefs, now, issued>>

\* The reply of GET /health, from the try block or from the catch block.
GetHealth_reply(c) ==
    /\ Resume(c, "GET /health")
    /\ IF loc[c].probe = ""
       THEN Send(c, reply(200, [status |-> "ok", timestamp |-> now,
                                database |-> "connected"]))
       ELSE Send(c, reply(503, [status |-> "error", timestamp |-> now,
                                database |-> "disconnected",
                                error |-> loc[c].probe]))
    /\ UNCHANGED <<users, prefs, now, issued>>

NextFail ==
    \/ Tick
    \/ \E email \in Emails : PostUsers_findUnique("c1", email, "password123", "Al")
    \/ PostUsers_create("c1", "saltA")
    \/ \E email \in Emails : PostLogin("c1", email, "password123")
    \/ \E user_id \in PathIds : GetUser("c1", user_id, NoHeader)
    \/ \E authorization \in RaceHeaders, user_id \in PathIds :
          PatchUser_onRequest("c1", authorization, user_id)
    \/ \E updates \in RaceUserBodies : PatchUser("c1", updates)
    \/ \E authorization \in RaceHeaders, user_id \in PathIds :
          PatchPreferences_onRequest("c1", authorization, user_id)
    \/ \E preferences \in RacePreferencesBodies :
          PatchPreferences_upsert("c1", preferences)
    \/ PatchPreferences_findUnique("c1")
    \/ Deliver("c1")
    \/ \E email \in Emails, error \in DbErrors :
          PostUsers_findUnique_throws("c1", email, "password123", "Al", error)
    \/ \E error \in DbErrors : PostUsers_create_throws("c1", error)
    \/ \E email \in Emails, error \in DbErrors :
          PostLogin_throws("c1", email, "password123", error)
    \/ \E user_id \in PathIds, error \in DbErrors : GetUser_throws("c1", user_id, error)
    \/ \E updates \in RaceUserBodies, error \in DbErrors :
          PatchUser_throws("c1", updates, error)
    \/ \E preferences \in RacePreferencesBodies, error \in DbErrors :
          PatchPreferences_upsert_throws("c1", preferences, error)
    \/ \E error \in DbErrors : PatchPreferences_findUnique_throws("c1", error)
    \/ \E authorization \in {NoHeader} \cup RaceHeaders, outcome \in {""} \cup DbErrors :
          GetHealth_queryRaw("c1", authorization, outcome)
    \/ GetHealth_reply("c1")

SpecFail == Init /\ [][NextFail]_vars

(***************************************************************************)
(* The service started without JWT_SECRET in its environment.  Nothing     *)
(* reads the variable before the first request: generateToken and          *)
(* authenticate read process.env.JWT_SECRET when they are called, and      *)
(* jwt.sign and jwt.verify throw when the key is undefined.                *)
(***************************************************************************)
\* error.message of what jwt.sign(payload, undefined, options) throws.
jwt_sign_noSecret == "secretOrPrivateKey must have a value"

\* POST / from the answer of prisma.user.findUnique on: hashPassword,
\* prisma.user.create, then generateToken, which throws after the create has
\* committed, and the catch block replies.
PostUsers_create_noSecret(c, salt) ==
    /\ Resume(c, "POST / create")
    /\ LET body == req[c].body
           hashedPassword == hashPassword(body.password, salt)
           r == user_create(users, prefs,
                    [email |-> body.email, password |-> hashedPassword,
                     name |-> body.name], now)
       IN  IF r.code = ""
           THEN /\ users' = r.users
                /\ prefs' = r.prefs
                /\ Caught(c, jwt_sign_noSecret)
           ELSE /\ Caught(c, error_message(r.code))
                /\ UNCHANGED <<users, prefs>>
    /\ UNCHANGED <<now, issued>>

\* POST /login: generateToken throws once the password has been found valid.
PostLogin_noSecret(c, email, password) ==
    /\ Receive(c, Request("POST /login", NoHeader, NULL,
                  [email |-> email, password |-> password]))
    /\ LET found == user_findUnique_email(users, email) IN
       IF found = {}
       THEN Send(c, reply(401, createResponse(FALSE,
                   "Invalid email or password", Nothing)))
       ELSE LET user == include(prefs, CHOOSE u \in found : TRUE)
                isPasswordValid == comparePassword(password, user.password)
            IN  IF ~isPasswordValid
                THEN Send(c, reply(401, createResponse(FALSE,
                            "Invalid email or password", Nothing)))
                ELSE Caught(c, jwt_sign_noSecret)
    /\ UNCHANGED <<users, prefs, now, issued>>

\* The hook: jwt.verify throws for every token, and the catch block replies.
OnRequest_noSecret(c, route, authorization, user_id) ==
    /\ Receive(c, Request(route, authorization, user_id, Nothing))
    /\ IF authorization = NoHeader \/ ~startsWith(authorization, "Bearer ")
       THEN Send(c, reply(401, [success |-> FALSE, message |-> "Access token required"]))
       ELSE Send(c, reply(403, [success |-> FALSE, message |-> "Invalid or expired token"]))
    /\ UNCHANGED <<users, prefs, now, issued>>

NextNoSecret ==
    \/ Tick
    \/ \E email \in Emails : PostUsers_findUnique("c1", email, "password123", "Al")
    \/ PostUsers_create_noSecret("c1", "saltA")
    \/ \E email \in Emails, password \in Passwords :
          PostLogin_noSecret("c1", email, password)
    \/ \E user_id \in PathIds : GetUser("c1", user_id, NoHeader)
    \/ \E route \in {"PATCH /:user_id", "PATCH /:user_id/preferences"},
          authorization \in {NoHeader, <<"Bearer ", <<"not-a-jwt">>>>},
          user_id \in PathIds :
          OnRequest_noSecret("c1", route, authorization, user_id)
    \/ Deliver("c1")

SpecNoSecret == Init /\ [][NextNoSecret]_vars

(***************************************************************************)
(* The service started on a database that holds an account already.  The   *)
(* relation notification_preferences of model User is optional, so the     *)
(* account has a row of preferences, with any values, or none; its owner   *)
(* holds a token issued before.  Accounts are registered and preferences   *)
(* updated on two connections at once.                                     *)
(***************************************************************************)
SeedUser ==
    [id |-> "u1", email |-> "a@b.com",
     password |-> hashPassword("password123", "saltA"), name |-> "Al",
     push_token |-> NULL, created_at |-> 0, updated_at |-> 0]

SeedPreferences ==
    {[id |-> "np-seed", user_id |-> SeedUser.id, email |-> e, push |-> p, sms |-> m] :
        e \in BOOLEAN, p \in BOOLEAN, m \in BOOLEAN}

InitSeeded ==
    /\ users = {SeedUser}
    /\ \E n \in SeedPreferences : prefs \in {{}, {n}}
    /\ now = 0
    /\ pc = [c \in Procs |-> "idle"]
    /\ req = [c \in Procs |-> NoRequest]
    /\ loc = [c \in Procs |-> Nothing]
    /\ resp = [c \in Procs |-> NoResponse]
    /\ issued = {generateToken(SeedUser.id, SeedUser.email, 0)}
    /\ nreq = 0

NextSeeded ==
    \/ \E c \in Procs, email \in Emails :
          PostUsers_findUnique(c, email, "password123", "Bo")
    \/ \E c \in Procs : PostUsers_create(c, "saltB")
    \/ \E c \in Procs, authorization \in RaceHeaders, user_id \in PathIds :
          PatchPreferences_onRequest(c, authorization, user_id)
    \/ \E c \in Procs, preferences \in UpdatePreferencesBodies :
          PatchPreferences_upsert(c, preferences)
    \/ \E c \in Procs : PatchPreferences_findUnique(c)
    \/ \E c \in Procs : Deliver(c)

SpecSeeded == InitSeeded /\ [][NextSeeded]_vars

(***************************************************************************)
(* The life of the process, index.js: the plugins are registered, the      *)
(* server listens, serves health checks, and closes on a signal.  The main *)
(* flow is one more entry of pc; loc[Main] holds what the plugins build:   *)
(* the decorations of the fastify instance, the service id, the calls made *)
(* to the Consul agent and the services the agent lists.                   *)
(***************************************************************************)
Main == "main"

\* `${serviceName}-${hostname}-${instanceId}` for two draws of randomUUID().
ServiceIds == {"user-service-host-uuid1", "user-service-host-uuid2"}

ConsulDecorations == {"consul", "consulRegister", "consulDeregister"}

InitConsul ==
    /\ users = {}
    /\ prefs = {}
    /\ now = 0
    /\ pc = [p \in Procs \cup {Main} |->
               IF p = Main THEN "register(prismaPlugin)" ELSE "idle"]
    /\ req = [p \in Procs \cup {Main} |-> NoRequest]
    /\ loc = [p \in Procs \cup {Main} |->
                IF p = Main
                THEN [decorations |-> {}, serviceId |-> NULL, services |-> {},
                      registerCalls |-> <<>>, deregisterCalls |-> <<>>]
                ELSE Nothing]
    /\ resp = [p \in Procs \cup {Main} |-> NoResponse]
    /\ issued = {}
    /\ nreq = 0

\* The main flow goes from one label to the next, with loc[Main] as given.
Goes(from, to, locals) ==
    /\ pc[Main] = from
    /\ pc' = [pc EXCEPT ![Main] = to]
    /\ loc' = [loc EXCEPT ![Main] = locals]
    /\ UNCHANGED <<users, prefs, now, req, resp, issued, nreq>>

\* await fastify.register(prismaPlugin): $connect resolves and the instance
\* is decorated, or it rejects and the plugin throws.
PrismaPlugin(connected) ==
    IF connected
    THEN Goes("register(prismaPlugin)", "consulPlugin register",
              [loc[Main] EXCEPT !.decorations = @ \cup {"prisma"}])
    ELSE Goes("register(prismaPlugin)", "crashed", loc[Main])

\* A plugin that lets the error of a failed registration out.
ConsulPlugin_register_rethrows(id, registered) ==
    LET m == loc[Main] IN
    IF registered
    THEN Goes("consulPlugin register", "consulPlugin decorate",
              [m EXCEPT !.serviceId = id,
                        !.registerCalls = Append(@, id),
                        !.services = @ \cup {id}])
    ELSE Goes("consulPlugin register", "crashed",
              [m EXCEPT !.serviceId = id, !.registerCalls = Append(@, id)])

\* consulPlugin up to the end of try { await register() } catch: the agent
\* takes the service or the call rejects; the error is logged and dropped.
ConsulPlugin_register(id, registered) ==
    LET m == loc[Main] IN
    Goes("consulPlugin register", "consulPlugin decorate",
         [m EXCEPT !.serviceId = id,
                   !.registerCalls = Append(@, id),
                   !.services = IF registered THEN @ \cup {id} ELSE @])

\* fastify.decorate('consul' ...), addHook('onClose'), and the rest of
\* index.js up to start().
ConsulPlugin_decorate ==
    Goes("consulPlugin decorate", "listen",
         [loc[Main] EXCEPT !.decorations = @ \cup ConsulDecorations])

\* start(): fastify.listen resolves, or rejects and the process exits 1.
Listen(bound) ==
    Goes("listen", IF bound THEN "listening" ELSE "exit 1", loc[Main])

Listening == pc[Main] = "listening"

\* SIGINT or SIGTERM: closeGracefully calls fastify.close().
Signal ==
    /\ \A c \in Procs : pc[c] = "idle"
    /\ Goes("listening", "close", loc[Main])

\* The onClose hooks, deregister() of the consul plugin among them, then
\* process.exit(0): the agent drops the service or the call rejects; the
\* error is logged and dropped.
OnClose(deregistered) ==
    LET m == loc[Main] IN
    Goes("close", "exit 0",
         [m EXCEPT !.deregisterCalls = Append(@, m.serviceId),
                   !.services = IF deregistered THEN @ \ {m.serviceId} ELSE @])

\* The steps of the main flow that the process takes by itself.
MainStep ==
    \/ \E connected \in BOOLEAN : PrismaPlugin(connected)
    \/ \E id \in ServiceIds, registered \in BOOLEAN : ConsulPlugin_register(id, registered)
    \/ ConsulPlugin_decorate
    \/ \E bound \in BOOLEAN : Listen(bound)
    \/ \E deregistered \in BOOLEAN : OnClose(deregistered)

NextConsul ==
    \/ Tick
    \/ \E connected \in BOOLEAN : PrismaPlugin(connected)
    \/ \E id \in ServiceIds, registered \in BOOLEAN : ConsulPlugin_register(id, registered)
    \/ ConsulPlugin_decorate
    \/ \E bound \in BOOLEAN : Listen(bound)
    \/ Signal
    \/ \E deregistered \in BOOLEAN : OnClose(deregistered)
    \/ Listening /\ \E outcome \in {""} \cup DbErrors :
          GetHealth_queryRaw("c1", NoHeader, outcome)
    \/ Listening /\ GetHealth_reply("c1")
    \/ Listening /\ Deliver("c1")

\* The event loop runs every continuation that is ready.
SpecConsul == InitConsul /\ [][NextConsul]_vars /\ WF_vars(MainStep)

(***************************************************************************)
(* Vocabulary of the properties.                                           *)
(***************************************************************************)
Gated(request) ==
    request.route \in {"PATCH /:user_id", "PATCH /:user_id/preferences"}

Bearer(request) == startsWith(request.headers.authorization, "Bearer ")

\* request.user is no longer null.
Identified(request) == DOMAIN request.user # {}

\* Connection c takes a step of its request.
Steps(c) == pc'[c] # pc[c] /\ pc'[c] # "idle"

\* Connection c takes the first step of a request: the request arrives.
Arrives(c) == pc[c] = "idle" /\ pc'[c] # "idle"

Replied(c) == pc[c] = "replied"

Forbidden(route) ==
    reply(403, [success |-> FALSE,
                message |-> IF route = "PATCH /:user_id"
                            THEN "You can only update your own profile"
                            ELSE "You can only update your own preferences"])

\* The request got past the hook with a token of another account than the
\* one its path names.
Mismatch(request) ==
    Gated(request) /\ Identified(request)
    /\ request.user.user_id # request.params.user_id

\* C1: a request to PATCH /:user_id or PATCH /:user_id/preferences whose
\* token verified and whose user_id claim differs from the user_id of the
\* path changes neither table in any of its steps, and the handler answers
\* it 403 with the route's "You can only update your own ..." message.
C1_NotOwnerForbidden ==
    [][\A c \in Procs :
         (Steps(c) /\ Mismatch(req'[c])) =>
             /\ UNCHANGED <<users, prefs>>
             /\ pc[c] # "idle" =>
                    (pc'[c] = "replied" /\ resp'[c] = Forbidden(req'[c].route))]_vars

C1_Witness ==
    \E c \in Procs :
        /\ Replied(c) /\ Mismatch(req[c])
        /\ req[c].params.user_id \in {u.id : u \in users}
        /\ ~isEmpty(req[c].body)
        /\ resp[c] = Forbidden(req[c].route)

Unauthenticated401 ==
    reply(401, [success |-> FALSE, message |-> "Access token required"])

Unauthenticated403 ==
    reply(403, [success |-> FALSE, message |-> "Invalid or expired token"])

Handling(c) ==
    pc[c] \in {"PATCH /:user_id", "PATCH /:user_id/preferences",
               "PATCH /:user_id/preferences findUnique"}

\* C2: a request to a gated route whose Authorization header is absent or
\* does not start with "Bearer " is answered 401 "Access token required" by
\* the hook in the step it arrives, request.user stays null, neither table
\* changes, and no connection is ever inside a gated handler with such a
\* header.
C2_NoBearer401 ==
    [][\A c \in Procs :
         /\ (Arrives(c) /\ Gated(req'[c]) /\ ~Bearer(req'[c])) =>
                /\ pc'[c] = "replied"
                /\ resp'[c] = Unauthenticated401
                /\ ~Identified(req'[c])
                /\ UNCHANGED <<users, prefs>>
         /\ Handling(c)' => Bearer(req'[c])]_vars

C2_Witness ==
    \E c \in Procs :
        /\ Replied(c) /\ Gated(req[c])
        /\ startsWith(req[c].headers.authorization, "Basic ")
        /\ jwt_verify(req[c].headers.authorization[2], JWT_SECRET, now).ok
        /\ resp[c] = Unauthenticated401

\* The token of a Bearer header.
TokenOf(request) == substring7(request.headers.authorization)

\* C3: a request to a gated route with a Bearer token that jwt.verify
\* refuses is answered 403 "Invalid or expired token" in the step it
\* arrives, with the same reply whether the token is malformed, has an
\* invalid signature or is expired; request.user stays null, neither table
\* changes and the handler is not entered.
C3_BadToken403 ==
    [][\A c \in Procs :
         (/\ Arrives(c) /\ Gated(req'[c]) /\ Bearer(req'[c])
          /\ jwt_verify(TokenOf(req'[c]), JWT_SECRET, now).error \in
               {"JsonWebTokenError: jwt malformed",
                "JsonWebTokenError: invalid signature",
                "TokenExpiredError: jwt expired"}) =>
             /\ pc'[c] = "replied"
             /\ resp'[c] = Unauthenticated403
             /\ ~Identified(req'[c])
             /\ UNCHANGED <<users, prefs>>]_vars

C3_Witness ==
    \E c \in Procs :
        /\ Replied(c) /\ Gated(req[c]) /\ Bearer(req[c])
        /\ jwt_verify(TokenOf(req[c]), JWT_SECRET, now).error =
               "TokenExpiredError: jwt expired"
        /\ resp[c] = Unauthenticated403

\* C5: a Bearer token that is not one of the tokens the server issued (an
\* issued token with a claim or the signature altered, or claims signed
\* with another key) never gets past the hook: its request is answered 403,
\* request.user stays null and the handler is not entered.
C5_TamperedNeverPasses ==
    \A c \in Procs :
        (/\ pc[c] # "idle" /\ Gated(req[c]) /\ Bearer(req[c])
         /\ TokenOf(req[c]) \notin issued) =>
            /\ Replied(c)
            /\ resp[c] = Unauthenticated403
            /\ ~Identified(req[c])

C5_Witness ==
    \E c \in Procs :
        /\ Replied(c) /\ Gated(req[c]) /\ Bearer(req[c])
        /\ TokenOf(req[c]) \notin issued
        /\ Len(TokenOf(req[c])) = 3
        /\ TokenOf(req[c])[3].key = JWT_SECRET
        /\ now < TokenOf(req[c])[2].exp
        /\ resp[c] = Unauthenticated403

Conflict409 ==
    reply(409, [success |-> FALSE, message |-> "User with this email already exists"])

\* C6: a POST / whose email is the email of a stored account when the
\* request arrives is answered 409 "User with this email already exists" in
\* that step, and neither table changes: no account, preferences row or
\* password digest of the attempt is written.
C6_DuplicateEmailConflict ==
    [][\A c \in Procs :
         (/\ Arrives(c) /\ req'[c].route = "POST /"
          /\ \E u \in users : u.email = req'[c].body.email) =>
             /\ pc'[c] = "replied"
             /\ resp'[c] = Conflict409
             /\ UNCHANGED <<users, prefs>>]_vars

C6_Witness ==
    \E c \in Procs :
        /\ Replied(c) /\ req[c].route = "POST /"
        /\ \E u \in users : u.email = req[c].body.email
        /\ resp[c] = Conflict409

\* The reply on c carries a token: a 201 of POST / or a 200 of POST /login.
IssuesToken(c) ==
    /\ Replied(c) /\ req[c].route \in {"POST /", "POST /login"}
    /\ resp[c].status \in {200, 201}

Expired(v) == ~v.ok /\ v.error = "TokenExpiredError: jwt expired"

\* The token a 201 or 200 carries verifies, at every second before
\* issued_at + JWT_EXPIRES_IN, to the id and email of the account in that
\* reply, and fails as expired at every second from then on.
C4_RoundTrip ==
    \A c \in Procs :
        IssuesToken(c) =>
            LET data == resp[c].body.data IN
            \A t \in now .. (now + JWT_EXPIRES_IN + 1) :
                LET v == jwt_verify(data.token, JWT_SECRET, t) IN
                IF t < now + JWT_EXPIRES_IN
                THEN /\ v.ok
                     /\ v.decoded.user_id = data.user.id
                     /\ v.decoded.email = data.user.email
                ELSE Expired(v)

\* An issued token in a Bearer header of a gated route makes the hook set
\* request.user to the token's claims before the second issued_at +
\* JWT_EXPIRES_IN, and answer 403 from that second on.
C4_Gate ==
    \A c \in Procs :
        (/\ Arrives(c) /\ Gated(req'[c]) /\ Bearer(req'[c])
         /\ TokenOf(req'[c]) \in issued) =>
            LET claims == TokenOf(req'[c])[2] IN
            IF now < claims.iat + JWT_EXPIRES_IN
            THEN /\ pc'[c] = req'[c].route
                 /\ req'[c].user.user_id = claims.user_id
                 /\ req'[c].user.email = claims.email
            ELSE /\ resp'[c] = Unauthenticated403
                 /\ ~Identified(req'[c])

\* C4 (as amended): a token issued for an account verifies to that
\* account's id and email, and the hook attaches that identity, at every
\* second strictly before issued_at + JWT_EXPIRES_IN; in that second and
\* at every later one verification fails as expired.
C4_VerifyUntilExpiry == [](C4_RoundTrip) /\ [][C4_Gate]_vars

C4_Witness ==
    \E c \in Procs :
        /\ Replied(c) /\ Gated(req[c]) /\ Bearer(req[c])
        /\ TokenOf(req[c]) \in issued
        /\ now = TokenOf(req[c])[2].iat + JWT_EXPIRES_IN
        /\ resp[c] = Unauthenticated403

\* C4 (as stated): an issued token presented at any second not after
\* issued_at + JWT_EXPIRES_IN gets past the hook, which attaches its
\* identity to the request.
C4_AsStated ==
    \A c \in Procs :
        (/\ pc[c] # "idle" /\ Gated(req[c]) /\ Bearer(req[c])
         /\ TokenOf(req[c]) \in issued
         /\ now <= TokenOf(req[c])[2].iat + JWT_EXPIRES_IN) =>
            Identified(req[c])

\* C7: a POST / that finds its email stored when it comes to create the
\* account, having passed the lookup, is answered like the lookup's
\* conflict: every POST / that ends without creating its account because
\* the email is taken gets 409 "User with this email already exists".
C7_RaceLoserConflict ==
    \A c \in Procs :
        (/\ Replied(c) /\ req[c].route = "POST /" /\ resp[c].status # 201
         /\ \E u \in users : u.email = req[c].body.email) =>
            resp[c] = Conflict409

\* C8: no two rows of users have the same email.
C8_EmailUnique ==
    \A u \in users : \A v \in users : u.email = v.email => u = v

C8_Witness ==
    \E c \in Procs :
        /\ Replied(c) /\ resp[c].status = 500
        /\ resp[c].body.error = error_message("P2002")
        /\ Cardinality(users) = 2
        /\ req[c].route = "PATCH /:user_id"

\* C9: the password column of every row of users is a bcrypt digest, never
\* a plaintext a client sent.
C9_PasswordsAreDigests ==
    \A u \in users : u.password \in Digests /\ u.password \notin Passwords

\* The account objects in a reply.
AccountObjects(r) ==
    IF "data" \notin DOMAIN r.body THEN {}
    ELSE IF "user" \in DOMAIN r.body.data THEN {r.body.data.user}
    ELSE {r.body.data}

\* C10: no reply of POST /, POST /login, GET /:user_id or PATCH /:user_id
\* carries a password: the account object in it has no password key, and
\* the error text of a 500 is no stored password.
C10_NoPasswordInReply ==
    \A c \in Procs :
        req[c].route \in {"POST /", "POST /login", "GET /:user_id", "PATCH /:user_id"} =>
            /\ \A o \in AccountObjects(resp[c]) : "password" \notin DOMAIN o
            /\ "error" \in DOMAIN resp[c].body =>
                   resp[c].body.error \notin {u.password : u \in users}

C10_Witness ==
    \E c \in Procs :
        /\ Replied(c) /\ req[c].route = "POST /login" /\ resp[c].status = 200
        /\ \E u \in users :
              /\ u.id = resp[c].body.data.user.id
              /\ u.password \in Digests
              /\ DOMAIN resp[c].body.data.user =
                   (DOMAIN u \ {"password"}) \cup {"notification_preferences"}

Unauthorized401 ==
    reply(401, [success |-> FALSE, message |-> "Invalid email or password"])

\* The accounts whose email and password are those of the login body.
Credentialed(body) ==
    {u \in users : /\ u.email = body.email
                   /\ \E s \in Salts : u.password = bcrypt_hash(body.password, s)}

\* C11: a POST /login whose email is the email of no account, and a POST
\* /login whose email is stored but whose password is not the one the
\* stored digest was made of, get one and the same reply, 401 "Invalid
\* email or password" and nothing else, in the step they arrive.
C11_LoginFailuresAlike ==
    [][\A c \in Procs :
         (/\ Arrives(c) /\ req'[c].route = "POST /login"
          /\ Credentialed(req'[c].body) = {}) =>
             /\ pc'[c] = "replied"
             /\ resp'[c] = Unauthorized401]_vars

C11_Witness ==
    \E c \in Procs :
        /\ Replied(c) /\ req[c].route = "POST /login"
        /\ \E u \in users : u.email = req[c].body.email /\ u.password \in Digests
        /\ \E e \in Emails : \A u \in users : u.email # e
        /\ Credentialed(req[c].body) = {}
        /\ resp[c] = Unauthorized401

\* C12: the reply of a POST /login carries a token exactly when an account
\* has the email of the body and a stored digest made of the password of
\* the body; the token then verifies to the id and email of that account;
\* and the step changes neither table.
C12_LoginTokenForCredentials ==
    [][\A c \in Procs :
         (Arrives(c) /\ req'[c].route = "POST /login") =>
             /\ UNCHANGED <<users, prefs>>
             /\ pc'[c] = "replied"
             /\ LET owners == Credentialed(req'[c].body)
                    body == resp'[c].body
                IN  IF owners = {}
                    THEN "data" \notin DOMAIN body
                    ELSE \E u \in owners :
                           LET v == jwt_verify(body.data.token, JWT_SECRET, now)
                           IN  /\ resp'[c].status = 200
                               /\ v.ok
                               /\ v.decoded.user_id = u.id
                               /\ v.decoded.email = u.email
                               /\ body.data.user.id = u.id]_vars

C12_Witness ==
    \E c \in Procs :
        /\ Replied(c) /\ req[c].route = "POST /login" /\ resp[c].status = 200
        /\ Cardinality(users) = 2
        /\ \E u \in Credentialed(req[c].body) :
              /\ resp[c].body.data.token[2].user_id = u.id
              /\ resp[c].body.data.token[2].email = u.email

BadRequest(route) ==
    reply(400, [success |-> FALSE,
                message |-> IF route = "PATCH /:user_id"
                            THEN "No valid fields to update"
                            ELSE "No preferences provided to update"])

\* The handler of a PATCH route runs for the account its token names, on a
\* body without keys.
OwnerSendsNothing(c, request) ==
    /\ pc[c] \in {"PATCH /:user_id", "PATCH /:user_id/preferences"}
    /\ request.user.user_id = request.params.user_id
    /\ DOMAIN request.body = {}

\* C13: when the handler of PATCH /:user_id or PATCH /:user_id/preferences
\* runs for the owner of the account on a body with no key, it replies 400
\* with the route's "No ... to update" message in that step and writes no
\* row: users (updated_at included) and notification_preferences are as
\* before.
C13_EmptyPayloadBadRequest ==
    [][\A c \in Procs :
         (Steps(c) /\ OwnerSendsNothing(c, req'[c])) =>
             /\ pc'[c] = "replied"
             /\ resp'[c] = BadRequest(req'[c].route)
             /\ UNCHANGED <<users, prefs>>]_vars

C13_Witness ==
    \E c \in Procs :
        /\ Replied(c) /\ req[c].route = "PATCH /:user_id"
        /\ Identified(req[c])
        /\ req[c].user.user_id = req[c].params.user_id
        /\ DOMAIN req[c].body = {}
        /\ \E u \in users : u.id = req[c].params.user_id /\ u.updated_at < now
        /\ resp[c] = BadRequest(req[c].route)

\* The columns of users a profile update is documented to write.
ProfileFields == {"name", "push_token"}

\* Row new is row old after a profile update with the given body at time t.
ProfileUpdated(old, new, body, t) ==
    /\ \A k \in ProfileFields :
          new[k] = IF k \in DOMAIN body THEN body[k] ELSE old[k]
    /\ new.updated_at = t
    /\ \A k \in {"id", "email", "password", "created_at"} : new[k] = old[k]

\* C14: a PATCH /:user_id answered 200 has written, of the row of its
\* account, the columns name and push_token that the body carries and
\* updated_at, and nothing else: id, email, password and created_at of the
\* row, the columns the body does not carry, every other row of users and
\* the table notification_preferences are as before, whatever the keys of
\* the body.
C14_ProfileUpdateFrame ==
    [][\A c \in Procs :
         (/\ pc[c] = "PATCH /:user_id" /\ pc'[c] = "replied"
          /\ resp'[c].status = 200) =>
             /\ UNCHANGED prefs
             /\ \E old \in users : \E new \in users' :
                   /\ old.id = req'[c].params.user_id
                   /\ ProfileUpdated(old, new, req'[c].body, now)
                   /\ users' \ {new} = users \ {old}]_vars

\* The three switches of a row of notification_preferences.
Triple(row) == [email |-> row.email, push |-> row.push, sms |-> row.sms]

\* @default(true), @default(true), @default(false)
PreferenceDefaults == [email |-> TRUE, push |-> TRUE, sms |-> FALSE]

\* The switches of user_id before a write: those of its row, or the column
\* defaults when it has no row.
Prior(user_id) ==
    IF \E n \in prefs : n.user_id = user_id
    THEN Triple(CHOOSE n \in prefs : n.user_id = user_id)
    ELSE PreferenceDefaults

Merged(prior, body) ==
    [k \in DOMAIN prior |-> IF k \in DOMAIN body THEN body[k] ELSE prior[k]]

\* C15: the upsert of a PATCH /:user_id/preferences leaves the row of the
\* account with the fields of the body set as the body says and every
\* other field as it was in the row before, or at its default (email true,
\* push true, sms false) when the account had no row; and the 200 of the
\* request reports the three fields of the row as that upsert left it.
C15_PreferencesMerged ==
    [][\A c \in Procs :
         /\ (/\ pc[c] = "PATCH /:user_id/preferences"
             /\ pc'[c] = "PATCH /:user_id/preferences findUnique") =>
                LET user_id == req'[c].params.user_id
                    rows == {n \in prefs' : n.user_id = user_id}
                IN  /\ Cardinality(rows) = 1
                    /\ \A n \in rows :
                          /\ Triple(n) = Merged(Prior(user_id), req'[c].body)
                          /\ loc'[c].updatedPreferences = n
                    /\ prefs' \ rows = {n \in prefs : n.user_id # user_id}
         /\ (/\ pc[c] = "PATCH /:user_id/preferences findUnique"
             /\ pc'[c] = "replied" /\ resp'[c].status = 200) =>
                resp'[c].body.data.notification_preferences =
                    Triple(loc[c].updatedPreferences)]_vars

\* The account had no row, the body is {sms: true}, and the reply reports
\* email true, push true, sms true.
C15_Witness ==
    \E c \in Procs :
        /\ Replied(c) /\ req[c].route = "PATCH /:user_id/preferences"
        /\ resp[c].status = 200
        /\ req[c].body = [sms |-> TRUE]
        /\ \A n \in prefs : n.id # "np-seed"
        /\ resp[c].body.data.notification_preferences =
               [email |-> TRUE, push |-> TRUE, sms |-> TRUE]

\* C16: no step of a PATCH /:user_id/preferences changes a row of users
\* (name, email, push_token, password, created_at and updated_at stay), and
\* the updated_at of its 200 is the updated_at of the row of users of the
\* account, whenever the preferences were written.
C16_PreferencesLeaveAccount ==
    [][\A c \in Procs :
         (Steps(c) /\ req'[c].route = "PATCH /:user_id/preferences") =>
             /\ UNCHANGED users
             /\ (pc'[c] = "replied" /\ resp'[c].status = 200) =>
                    \E u \in users :
                        /\ u.id = req'[c].params.user_id
                        /\ resp'[c].body.data.id = u.id
                        /\ resp'[c].body.data.updated_at = u.updated_at]_vars

\* The token of the request was issued, and so the preferences written,
\* after the account was last written.
C16_Witness ==
    \E c \in Procs :
        /\ Replied(c) /\ req[c].route = "PATCH /:user_id/preferences"
        /\ resp[c].status = 200
        /\ req[c].user.iat > resp[c].body.data.updated_at
        /\ \E n \in prefs : n.user_id = req[c].params.user_id /\ n.sms

\* Every account has a row of preferences and every row of preferences has
\* its account.
Paired ==
    /\ \A u \in users : \E n \in prefs : n.user_id = u.id
    /\ \A n \in prefs : \E u \in users : u.id = n.user_id

\* The create step of the POST / on c: it adds one account with the email
\* of the body, push_token null, and one row of preferences of that account
\* with the defaults, when it replies 201; it adds nothing otherwise.
RegisterCreates(c) ==
    IF resp'[c].status = 201
    THEN \E u \in users' \ users : \E n \in prefs' \ prefs :
            /\ users' = users \cup {u}
            /\ prefs' = prefs \cup {n}
            /\ u.email = req'[c].body.email
            /\ u.push_token = NULL
            /\ n.user_id = u.id
            /\ Triple(n) = PreferenceDefaults
            /\ resp'[c].body.data.user.id = u.id
            /\ resp'[c].body.data.user.push_token = NULL
            /\ Triple(resp'[c].body.data.user.notification_preferences)
                   = PreferenceDefaults
    ELSE UNCHANGED <<users, prefs>>

C18_OnePreferencesRow ==
    \A n \in prefs : \A m \in prefs : n.user_id = m.user_id => n = m

\* Both connections have upserted the preferences of the account that had
\* no row, neither has replied yet, and another account was registered.
C18_Witness ==
    /\ \A c \in Procs :
          /\ pc[c] = "PATCH /:user_id/preferences findUnique"
          /\ req[c].params.user_id = SeedUser.id
    /\ \A n \in prefs : n.id # "np-seed"
    /\ Cardinality(users) = 2
    /\ Cardinality(prefs) = 2

NotFound404 == reply(404, [success |-> FALSE, message |-> "User not found"])

\* The account object data is row u of users without its password, with
\* the row of preferences of u.
ProfileOf(data, u) ==
    /\ DOMAIN data = (DOMAIN u \ {"password"}) \cup {"notification_preferences"}
    /\ \A k \in DOMAIN u \ {"password"} : data[k] = u[k]
    /\ \E n \in prefs :
          n.user_id = u.id /\ Triple(data.notification_preferences) = Triple(n)

\* C19: a GET /:user_id is answered in the step it arrives, whatever its
\* Authorization header (none, a string that is no token, a token of any
\* account, expired or not): 200 with the row of the account without its
\* password when the id of the path is the id of an account, 404 "User not
\* found" when it is not; and neither table changes.
C19_GetProfileOpen ==
    [][\A c \in Procs :
         (Arrives(c) /\ req'[c].route = "GET /:user_id") =>
             /\ UNCHANGED <<users, prefs>>
             /\ pc'[c] = "replied"
             /\ IF \E u \in users : u.id = req'[c].params.user_id
                THEN /\ resp'[c].status = 200
                     /\ \E u \in users :
                           /\ u.id = req'[c].params.user_id
                           /\ ProfileOf(resp'[c].body.data, u)
                ELSE resp'[c] = NotFound404]_vars

C19_Witness ==
    \E c \in Procs :
        /\ Replied(c) /\ req[c].route = "GET /:user_id"
        /\ req[c].headers.authorization = NoHeader
        /\ resp[c].status = 200
        /\ \E u \in users : u.id = req[c].params.user_id /\ u.password \in Digests
        /\ \E v \in users : v.id # req[c].params.user_id

\* C20: a request to one of the five user routes whose database call
\* failed is answered once, with the error kind for an unavailable database
\* and without the exception: no reply carries the message of an error the
\* database client threw, in its message or in its error field.
C20_FailuresNotExposed ==
    \A c \in Procs :
        req[c].route # "GET /health" =>
            \A k \in DOMAIN resp[c].body \cap {"message", "error"} :
                resp[c].body[k] \notin DbErrors

\* Every token given out verifies, at each second from now to the last one
\* before its exp, to the claims it carries.
IssuedStayValid ==
    \A tok \in issued :
        \A t \in now .. (tok[2].exp - 1) :
            LET v == jwt_verify(tok, JWT_SECRET, t)
            IN  v.ok /\ v.decoded = tok[2]

\* C21: a token the server issued gets past the hook of the gated routes
\* at every later second before its exp, whatever requests were handled in
\* between and whatever the tables hold by then, and request.user is then
\* the user_id and email the token was issued with; the outcome depends on
\* the token and the clock only.
C21_NeverRevoked ==
    /\ [](IssuedStayValid)
    /\ [][\A c \in Procs :
            (/\ Arrives(c) /\ Gated(req'[c]) /\ Bearer(req'[c])
             /\ TokenOf(req'[c]) \in issued
             /\ now < TokenOf(req'[c])[2].exp) =>
                /\ pc'[c] = req'[c].route
                /\ req'[c].user = TokenOf(req'[c])[2]]_vars

\* A request is in its handler on a token whose email the account has
\* since replaced.
C21_Witness ==
    \E c \in Procs :
        /\ Handling(c) /\ TokenOf(req[c]) \in issued
        /\ req[c].user = TokenOf(req[c])[2]
        /\ \E u \in users : u.id = req[c].user.user_id /\ u.email # req[c].user.email

\* The reply on c is the 200 of a POST /login.
LoggedIn(c) ==
    Replied(c) /\ req[c].route = "POST /login" /\ resp[c].status = 200

\* C22 (as stated): the token of a successful login is a string the
\* clients were not given before, by the registration or by an earlier
\* login.
C22_AsStated ==
    \A c \in Procs : LoggedIn(c) => resp[c].body.data.token \notin issued

\* C22 (as amended): the token of a successful login carries the id and
\* email of the account, and is the same string as a token given out
\* before exactly when that token has the same user_id and email and was
\* issued in the same second; it differs from every token issued in
\* another second.
C22_LoginTokenFresh ==
    \A c \in Procs :
        LoggedIn(c) =>
            LET data == resp[c].body.data
                claims == data.token[2]
            IN  /\ claims.user_id = data.user.id
                /\ claims.email = data.user.email
                /\ \A old \in issued :
                      (old = data.token) <=>
                          /\ old[2].user_id = claims.user_id
                          /\ old[2].email = claims.email
                          /\ old[2].iat = now

\* A login returns the string of the login before it in the same second,
\* which differs from the string the registration returned a second
\* earlier.
C22_Witness ==
    \E c \in Procs :
        /\ LoggedIn(c)
        /\ resp[c].body.data.token \in issued
        /\ \E old \in issued :
              /\ old # resp[c].body.data.token
              /\ old[2].user_id = resp[c].body.data.token[2].user_id
              /\ old[2].email = resp[c].body.data.token[2].email

Hashed(c) == pc[c] \in {"hashed", "compared"}

C24_HealthFollowsProbe ==
    [][\A c \in Procs :
         /\ (Arrives(c) /\ req'[c].route = "GET /health") =>
                (pc'[c] = "GET /health" /\ UNCHANGED <<users, prefs>>)
         /\ (pc[c] = "GET /health" /\ pc'[c] # pc[c]) =>
                /\ UNCHANGED <<users, prefs>>
                /\ pc'[c] = "replied"
                /\ IF loc[c].probe \in DbErrors
                   THEN /\ resp'[c].status = 503
                        /\ resp'[c].body.status = "error"
                        /\ resp'[c].body.database = "disconnected"
                   ELSE /\ resp'[c].status = 200
                        /\ resp'[c].body.status = "ok"
                        /\ resp'[c].body.database = "connected"]_vars

C24_Witness ==
    \E c \in Procs :
        /\ Replied(c) /\ req[c].route = "GET /health"
        /\ req[c].headers.authorization = NoHeader
        /\ resp[c].status = 503
        /\ resp[c].body.database = "disconnected"
        /\ users # {}

\* The main flow is past the consul plugin.
PastConsulPlugin ==
    pc[Main] \in {"listen", "listening", "close", "exit 0", "exit 1"}

\* What the calls to the Consul agent and the decorations are at each
\* point of the main flow.
ConsulCalls ==
    LET m == loc[Main] IN
    /\ Len(m.registerCalls) <= 1
    /\ (pc[Main] = "consulPlugin decorate" \/ PastConsulPlugin) =>
           m.registerCalls = <<m.serviceId>>
    /\ PastConsulPlugin => ConsulDecorations \subseteq m.decorations
    /\ m.deregisterCalls = IF pc[Main] = "exit 0" THEN <<m.serviceId>> ELSE <<>>

\* The step after the call of register is the rest of the plugin, and the
\* step after the call of deregister is the exit with code 0.
ConsulFailuresPass ==
    /\ (pc[Main] = "consulPlugin register" /\ pc'[Main] # pc[Main]) =>
           pc'[Main] = "consulPlugin decorate"
    /\ (pc[Main] = "close" /\ pc'[Main] # pc[Main]) =>
           pc'[Main] = "exit 0"

\* C25: the process calls the agent's register once, in the consul plugin
\* at startup, and deregister once, with the same service id, when it
\* closes; whether register resolved or rejected, the plugin goes on to
\* install consul, consulRegister and consulDeregister and the process
\* comes to listen; whether deregister resolved or rejected, the close
\* ends with exit code 0.
C25_ConsulLifecycle ==
    /\ [](ConsulCalls)
    /\ [][ConsulFailuresPass]_vars
    /\ (pc[Main] = "consulPlugin register") ~> (pc[Main] \in {"listening", "exit 1"})
    /\ (pc[Main] = "close") ~> (pc[Main] = "exit 0")

\* The process has exited 0 although the agent still lists the service:
\* the deregistration failed.
C25_Witness ==
    /\ pc[Main] = "exit 0"
    /\ loc[Main].services = {loc[Main].serviceId}
    /\ loc[Main].registerCalls = loc[Main].deregisterCalls
    /\ nreq > 0

\* The hook lets the request through: a Bearer token that jwt.verify accepts
\* at the time of the request.
TokenValid(request, t) ==
    /\ Bearer(request)
    /\ jwt_verify(TokenOf(request), JWT_SECRET, t).ok

\* C26: on PATCH /:user_id and PATCH /:user_id/preferences the token is
\* looked at first, the owner second, the body third, and the write comes
\* last.  A request without a valid token is answered 401 or 403 by the hook
\* in the step it arrives, whatever its path id, and no body is read; a
\* request of an identified caller who is not the owner, with an empty body,
\* is answered with the route's 403 and not its 400; and a table changes in
\* a step of a gated request only when the caller is the owner and the body
\* has a key.
C26_ChecksInOrder ==
    [][\A c \in Procs :
         /\ (Arrives(c) /\ Gated(req'[c]) /\ ~TokenValid(req'[c], now)) =>
                /\ pc'[c] = "replied"
                /\ resp'[c] \in {Unauthenticated401, Unauthenticated403}
                /\ req'[c].body = Nothing
                /\ UNCHANGED <<users, prefs>>
         /\ (/\ Steps(c) /\ ~Arrives(c) /\ Mismatch(req'[c])
             /\ DOMAIN req'[c].body = {}) =>
                /\ pc'[c] = "replied"
                /\ resp'[c] = Forbidden(req'[c].route)
                /\ resp'[c] # BadRequest(req'[c].route)
                /\ UNCHANGED <<users, prefs>>
         /\ (Steps(c) /\ Gated(req'[c]) /\ <<users, prefs>>' # <<users, prefs>>) =>
                /\ Identified(req'[c])
                /\ req'[c].user.user_id = req'[c].params.user_id
                /\ DOMAIN req'[c].body # {}]_vars

C26_Witness ==
    \E c \in Procs :
        /\ Replied(c) /\ req[c].route = "PATCH /:user_id"
        /\ Mismatch(req[c])
        /\ DOMAIN req[c].body = {}
        /\ req[c].params.user_id \in {u.id : u \in users}
        /\ resp[c] = Forbidden(req[c].route)

\* The reason jwt.verify gives for refusing the token of a Bearer header.
FailureKind(request, t) == jwt_verify(TokenOf(request), JWT_SECRET, t).error

\* C27: when the hook has refused a Bearer token with 403, what it has
\* logged tells which failure it was: the same request with a token refused
\* for another reason (malformed, invalid signature, expired) would have left
\* different lines in the log.
C27_FailureKindLogged ==
    \A c \in Procs :
        (Replied(c) /\ Gated(req[c]) /\ Bearer(req[c]) /\ resp[c].status = 403
         /\ ~Identified(req[c])) =>
            \A s \in TokenStrings :
                LET other == [req[c] EXCEPT !.headers.authorization = <<"Bearer ", s>>]
                IN  (/\ ~jwt_verify(s, JWT_SECRET, now).ok
                     /\ FailureKind(other, now) # FailureKind(req[c], now)) =>
                        authenticate_log(other, now) # authenticate_log(req[c], now)

\* The upsert of the request on connection c has been answered by the
\* database and the request is not yet off its connection.
Upserted(c) ==
    \/ pc[c] = "PATCH /:user_id/preferences findUnique"
    \/ /\ Replied(c) /\ req[c].route = "PATCH /:user_id/preferences"
       /\ resp[c].status = 200

\* Two requests in flight for the same account whose bodies name different
\* switches.
DisjointUpdates(c, d) ==
    /\ c # d
    /\ Upserted(c) /\ Upserted(d)
    /\ req[c].params.user_id = req[d].params.user_id
    /\ DOMAIN req[c].body # {} /\ DOMAIN req[d].body # {}
    /\ DOMAIN req[c].body \cap DOMAIN req[d].body = {}

\* The row of the account of the request on connection c.
RowOf(P, c) == {n \in P : n.user_id = req[c].params.user_id}

\* The upsert of c leaves the switches named by the request of d, in flight
\* for the same account, as they were, and sets its own.
UpsertKeepsOthers ==
    \A c, d \in Procs :
        (/\ pc[c] = "PATCH /:user_id/preferences"
         /\ pc'[c] = "PATCH /:user_id/preferences findUnique"
         /\ DisjointUpdates(c, d)') =>
            \A n \in RowOf(prefs, d), m \in RowOf(prefs', d) :
                /\ \A k \in DOMAIN req'[d].body : m[k] = n[k]
                /\ \A k \in DOMAIN req'[c].body : m[k] = req'[c].body[k]

\* C28: when two PATCH /:user_id/preferences requests of the owner of one
\* account are in flight together with bodies that name different switches,
\* the upsert of either leaves the switches of the other as they were; so
\* when the two are the only requests made, then once both upserts are done,
\* in whichever order the steps of the two were taken, the account has one
\* row and the row holds the values of both bodies.
C28_DisjointUpdatesBothApply ==
    /\ [](\A c, d \in Procs :
            (DisjointUpdates(c, d) /\ nreq = 2) =>
                /\ Cardinality(RowOf(prefs, c)) = 1
                /\ \A n \in RowOf(prefs, c) :
                      /\ \A k \in DOMAIN req[c].body : n[k] = req[c].body[k]
                      /\ \A k \in DOMAIN req[d].body : n[k] = req[d].body[k])
    /\ [][UpsertKeepsOthers]_vars

\* The account had no row when the two requests came, one sets sms and the
\* other clears email, and the row holds both.
C28_Witness ==
    /\ DisjointUpdates("c1", "c2")
    /\ nreq = 2
    /\ pc["c1"] = "PATCH /:user_id/preferences findUnique"
    /\ pc["c2"] = "PATCH /:user_id/preferences findUnique"
    /\ req["c1"].body = [sms |-> TRUE]
    /\ req["c2"].body = [email |-> FALSE]
    /\ \A n \in prefs : n.id # "np-seed"
    /\ \E n \in prefs : n.user_id = "u1" /\ n.sms /\ ~n.email /\ n.push

\* The name, the push token and the preferences of account x are not what
\* they were before the step.
AccountChanged(x) ==
    \/ \A u \in users' : u.id # x.id
    \/ \E u \in users' : u.id = x.id /\ <<u.name, u.push_token>> # <<x.name, x.push_token>>
    \/ {n \in prefs' : n.user_id = x.id} # {n \in prefs : n.user_id = x.id}

\* The step is a step of the handler of a gated request that carries a
\* Bearer token with a good signature whose user_id claim is id.
OwnersStep(c, id) ==
    /\ pc[c] \in {"PATCH /:user_id", "PATCH /:user_id/preferences"}
    /\ pc'[c] # pc[c]
    /\ Bearer(req'[c])
    /\ \E t \in 0..now : jwt_verify(TokenOf(req'[c]), JWT_SECRET, t).ok
    /\ TokenOf(req'[c])[2].user_id = id
    /\ req'[c].user.user_id = id

OnlyOwnerChanges ==
    /\ \A x \in users : AccountChanged(x) => \E c \in Procs : OwnersStep(c, x.id)
    /\ \A c \in Procs :
          /\ (Arrives(c) /\ Gated(req'[c]) /\ Identified(req'[c])) =>
                 /\ Bearer(req'[c])
                 /\ jwt_verify(TokenOf(req'[c]), JWT_SECRET, now).ok
                 /\ req'[c].user = TokenOf(req'[c])[2]
          /\ (Handling(c) /\ pc'[c] # pc[c]) =>
                 (req'[c].user = req[c].user /\ req'[c].headers = req[c].headers)
          /\ (Steps(c) /\ req'[c].route \in
                   {"POST /", "POST /login", "GET /:user_id", "GET /health"}) =>
                 /\ users \subseteq users'
                 /\ \A x \in users :
                       {n \in prefs' : n.user_id = x.id} = {n \in prefs : n.user_id = x.id}

C30_FailedRegisterWritesNothing ==
    [][\A c \in Procs :
         (/\ Steps(c) /\ req'[c].route = "POST /"
          /\ ~(pc'[c] = "replied" /\ resp'[c].status = 201)) =>
             UNCHANGED <<users, prefs>>]_vars

====
